---- MODULE Spec2Model ----
(***************************************************************************)
(* The pump trigger engine of the eDNA sampler (class Sampler, sampler.h   *)
(* and sampler.cpp): deployment configuration, its validation into the     *)
(* start/stop condition masks, the per-tick pump decision and the flow     *)
(* rate estimator.                                                         *)
(*                                                                         *)
(* Numbers.  uint32_t values are naturals below 2^WordBits and every       *)
(* uint32_t operation is taken modulo 2^WordBits; the model checker's      *)
(* integers are narrower than 2^32, so the word is WordBits wide and       *)
(* UINT_MAX is 2^WordBits - 1.  A float is an integer number of            *)
(* hundredths (FloatScale): 20.f metres is 2000, ABS_ZERO_C (-273.15f) is  *)
(* -27315, MIN_FLOWRATE (0.2f) is 20, and FLT_MAX is a number above every  *)
(* other float of the model.  Rounding of float arithmetic, NaN and the    *)
(* infinities are not modelled.  uint8_t values are 0..255.                *)
(***************************************************************************)
EXTENDS Integers, Sequences, FiniteSets, TLC

\* ------------------------------------------------------------ constants
WordBits == 19
UINT_MAX == 2^WordBits - 1
FloatScale == 100
FLT_MAX == 2000000000

N_START_COND == 3
N_END_COND == 3
NUM_FLOW_LOGS == 5
ABS_ZERO_C == -27315

PUMP_OFF == 7
PUMP_ON == 8
MAX_DEPTH == 300 * FloatScale
MIN_DEPTH == 1 * FloatScale
MAX_TEMPERATURE == 125 * FloatScale
MIN_FLOWRATE == (2 * FloatScale) \div 10

\* ------------------------------------------------------------ arithmetic
\* uint32_t arithmetic wraps
U32(x) == x % (UINT_MAX + 1)
\* a uint32_t converted to float
ToFloat(n) == n * FloatScale
\* fabs of <math.h>
fabs(x) == IF x < 0 THEN 0 - x ELSE x
\* the value of a C comparison or && expression
Bool(p) == IF p THEN 1 ELSE 0
\* the C operator !
LogicalNot(x) == IF x = 0 THEN 1 ELSE 0

RECURSIVE BitAnd(_, _)
\* the C operator & on non-negative integers
BitAnd(a, b) ==
    IF a = 0 \/ b = 0 THEN 0
    ELSE (a % 2) * (b % 2) + 2 * BitAnd(a \div 2, b \div 2)

RECURSIVE BitOr(_, _)
\* the C operator | on non-negative integers
BitOr(a, b) ==
    IF a = 0 THEN b
    ELSE IF b = 0 THEN a
    ELSE (IF a % 2 = 1 \/ b % 2 = 1 THEN 1 ELSE 0) + 2 * BitOr(a \div 2, b \div 2)

\* a value stored into a uint8_t
U8(x) == x % 256

\* a value stored into a uint16_t
U16(x) == x % 65536

CondIdx == 0 .. (N_START_COND - 1)
LogIdx == 0 .. (NUM_FLOW_LOGS - 1)

\* ------------------------------------------------------------ state
VARIABLES
    _minFlowrate, _waitPumpEnd, _targetFlowVol, _waitPumpStart,
    _temperatureBand, _targetTemperature, _depthBand, _targetDepth,
    _ticksPerLiter, _maxFlowrate,
    _startConditions, _endConditions,
    _startConditionMask, _endConditionMask,
    _diveStartTime, _pumpStartTime,
    _flowLog, _curFlowIdx, _curFlowrate,
    call,        \* the last call that returned: its name, arguments, result
    cfgIn,       \* the arguments of the last setDeploymentConfig call
    maskState,   \* "uninit" until isValidUserConfig runs, then "current";
                 \* "stale" once setDeploymentConfig ran after it
    samples,     \* the samples passed to updateCurrentFlowrate, in order
    wifiStatus,  \* WiFi.status(): the state of the link
    wifi_attempt,
    connectPc,   \* where connectWiFi is: "idle", "loop", "returned"
    fileSize,    \* curFile: its length in bytes
    filePos,     \* curFile: the bytes read so far
    bytesRead, nthChunk, httpCode,
    uploadPc,    \* where _persistChunkUpload is: "idle", "loop", "posted",
                 \* "returned"
    sent,        \* the last POST: its Nth header, Data-Bytes header and the
                 \* file offset of the first byte of its payload
    acked        \* the number of chunks the server answered 200 to

configVars == <<_minFlowrate, _waitPumpEnd, _targetFlowVol, _waitPumpStart,
                _temperatureBand, _targetTemperature, _depthBand,
                _targetDepth, _ticksPerLiter>>
maskVars == <<_startConditionMask, _endConditionMask>>
condVars == <<_startConditions, _endConditions>>
timeVars == <<_diveStartTime, _pumpStartTime>>
flowVars == <<_flowLog, _curFlowIdx, _curFlowrate, samples>>
\* class Sampler, all of it but the record of the last call
samplerVars == <<configVars, _maxFlowrate, condVars, maskVars, timeVars,
                 flowVars, cfgIn, maskState>>
\* class SamplerWiFi and the link it drives
connectVars == <<wifiStatus, wifi_attempt, connectPc>>
uploadVars == <<fileSize, filePos, bytesRead, nthChunk, httpCode, uploadPc,
                sent, acked>>
wifiVars == <<connectVars, uploadVars>>
vars == <<configVars, _maxFlowrate, condVars, maskVars, timeVars, flowVars,
          call, cfgIn, maskState, wifiVars>>

\* the record of a call that returned
Returned(op, args, ret) == [op |-> op, args |-> args, ret |-> ret]

\* ------------------------------------------------------------ setDeploymentConfig
\* sampler.cpp:21
StoreTargetDepth(targetDepth) ==
    IF targetDepth > 0 THEN targetDepth ELSE FLT_MAX
\* sampler.cpp:23
StoreTargetTemperature(targetTemperature) ==
    IF targetTemperature > ABS_ZERO_C THEN targetTemperature ELSE ABS_ZERO_C
\* sampler.cpp:25
StoreWaitPumpStart(waitPumpStart) == U32(waitPumpStart * 60)
\* sampler.cpp:27, float * uint32_t
StoreMinFlowrate(minFlowrate, ticksPerLiter) == minFlowrate * ticksPerLiter
\* the pump duration converted without the test for zero
StoreWaitPumpEndNoSentinel(waitPumpEnd) == U32(waitPumpEnd * 60)

\* sampler.cpp:28
StoreWaitPumpEnd(waitPumpEnd) ==
    IF waitPumpEnd > 0 THEN U32(waitPumpEnd * 60) ELSE UINT_MAX
\* sampler.cpp:29
StoreTargetFlowVol(targetFlowVol, ticksPerLiter) ==
    IF targetFlowVol > 0 THEN U32(targetFlowVol * ticksPerLiter) ELSE UINT_MAX

\* the argument list of setDeploymentConfig, in the order of its parameters
CfgMinFlowrate(c) == c[1]
CfgTargetDepth(c) == c[2]
CfgDepthBand(c) == c[3]
CfgTargetTemperature(c) == c[4]
CfgTemperatureBand(c) == c[5]
CfgWaitPumpEnd(c) == c[6]
CfgWaitPumpStart(c) == c[7]
CfgTargetFlowVol(c) == c[8]
CfgTicksPerLiter(c) == c[9]

\* the configuration stored and every condition disabled until the next validation
setDeploymentConfigDisabling(c) ==
    /\ _ticksPerLiter' = CfgTicksPerLiter(c)
    /\ _targetDepth' = StoreTargetDepth(CfgTargetDepth(c))
    /\ _depthBand' = CfgDepthBand(c)
    /\ _targetTemperature' = StoreTargetTemperature(CfgTargetTemperature(c))
    /\ _temperatureBand' = CfgTemperatureBand(c)
    /\ _waitPumpStart' = StoreWaitPumpStart(CfgWaitPumpStart(c))
    /\ _minFlowrate' = StoreMinFlowrate(CfgMinFlowrate(c), CfgTicksPerLiter(c))
    /\ _waitPumpEnd' = StoreWaitPumpEnd(CfgWaitPumpEnd(c))
    /\ _targetFlowVol' = StoreTargetFlowVol(CfgTargetFlowVol(c), CfgTicksPerLiter(c))
    /\ _startConditionMask' = [i \in CondIdx |-> 0]
    /\ _endConditionMask' = [i \in CondIdx |-> 0]
    /\ call' = Returned("setDeploymentConfig", c, 0)
    /\ cfgIn' = c
    /\ maskState' = IF maskState = "uninit" THEN "uninit" ELSE "stale"
    /\ UNCHANGED wifiVars
    /\ UNCHANGED <<_maxFlowrate, condVars, timeVars, flowVars>>

\* sampler.cpp:8-30
setDeploymentConfig(c) ==
    /\ _ticksPerLiter' = CfgTicksPerLiter(c)
    /\ _targetDepth' = StoreTargetDepth(CfgTargetDepth(c))
    /\ _depthBand' = CfgDepthBand(c)
    /\ _targetTemperature' = StoreTargetTemperature(CfgTargetTemperature(c))
    /\ _temperatureBand' = CfgTemperatureBand(c)
    /\ _waitPumpStart' = StoreWaitPumpStart(CfgWaitPumpStart(c))
    /\ _minFlowrate' = StoreMinFlowrate(CfgMinFlowrate(c), CfgTicksPerLiter(c))
    /\ _waitPumpEnd' = StoreWaitPumpEnd(CfgWaitPumpEnd(c))
    /\ _targetFlowVol' = StoreTargetFlowVol(CfgTargetFlowVol(c), CfgTicksPerLiter(c))
    /\ call' = Returned("setDeploymentConfig", c, 0)
    /\ cfgIn' = c
    /\ maskState' = IF maskState = "uninit" THEN "uninit" ELSE "stale"
    /\ UNCHANGED wifiVars
    /\ UNCHANGED <<_maxFlowrate, condVars, maskVars, timeVars, flowVars>>

\* ------------------------------------------------------------ isValidUserConfig
\* the dive wait mask without its test for zero
NewStartConditionMaskZeroWait ==
    [i \in CondIdx |->
        CASE i = 0 -> Bool(/\ _targetDepth >= MIN_DEPTH
                           /\ _targetDepth < MAX_DEPTH
                           /\ _depthBand > 0)
          [] i = 1 -> Bool(/\ _targetTemperature > ABS_ZERO_C
                           /\ _targetTemperature < MAX_TEMPERATURE
                           /\ _temperatureBand > 0)
          [] i = 2 -> Bool(_waitPumpStart < UINT_MAX)]

\* sampler.cpp:34-43
NewStartConditionMask ==
    [i \in CondIdx |->
        CASE i = 0 -> Bool(/\ _targetDepth >= MIN_DEPTH
                           /\ _targetDepth < MAX_DEPTH
                           /\ _depthBand > 0)
          [] i = 1 -> Bool(/\ _targetTemperature > ABS_ZERO_C
                           /\ _targetTemperature < MAX_TEMPERATURE
                           /\ _temperatureBand > 0)
          [] i = 2 -> Bool(_waitPumpStart > 0 /\ _waitPumpStart < UINT_MAX)]

\* the volume and duration masks without their upper limit
NewEndConditionMaskNoUpper ==
    [i \in CondIdx |->
        CASE i = 0 -> Bool(_targetFlowVol > 0)
          [] i = 1 -> Bool(_waitPumpEnd > 0)
          [] i = 2 -> Bool(_minFlowrate >= MIN_FLOWRATE * _ticksPerLiter)]

\* sampler.cpp:45-50
NewEndConditionMask ==
    [i \in CondIdx |->
        CASE i = 0 -> Bool(_targetFlowVol > 0 /\ _targetFlowVol < UINT_MAX)
          [] i = 1 -> Bool(_waitPumpEnd > 0 /\ _waitPumpEnd < UINT_MAX)
          [] i = 2 -> Bool(_minFlowrate >= MIN_FLOWRATE * _ticksPerLiter)]

RECURSIVE OrMasks(_, _, _)
\* sampler.cpp:54-57, one of the two accumulators of the loop
OrMasks(acc, mask, i) ==
    IF i = N_START_COND THEN acc
    ELSE OrMasks(U8(BitOr(acc, mask[i])), mask, i + 1)

\* the three flags combined by | instead of &
ValidityOfAny(ticksPerLiter, startMask, endMask) ==
    LET isValidFlowmeter == Bool(ticksPerLiter > 0)
        isPumpTrigger == OrMasks(0, startMask, 0)
        isPumpStop == OrMasks(0, endMask, 0)
    IN  U8(BitOr(BitOr(isValidFlowmeter, isPumpTrigger), isPumpStop))

\* sampler.cpp:52-58
ValidityOf(ticksPerLiter, startMask, endMask) ==
    LET isValidFlowmeter == Bool(ticksPerLiter > 0)
        isPumpTrigger == OrMasks(0, startMask, 0)
        isPumpStop == OrMasks(0, endMask, 0)
    IN  U8(BitAnd(BitAnd(isValidFlowmeter, isPumpTrigger), isPumpStop))

isValidUserConfig ==
    /\ _startConditionMask' = NewStartConditionMask
    /\ _endConditionMask' = NewEndConditionMask
    /\ call' = Returned("isValidUserConfig", <<>>,
                        ValidityOf(_ticksPerLiter, NewStartConditionMask,
                                   NewEndConditionMask))
    /\ maskState' = "current"
    /\ UNCHANGED wifiVars
    /\ UNCHANGED <<configVars, _maxFlowrate, condVars, timeVars, flowVars, cfgIn>>

\* ------------------------------------------------------------ checkPumpTrigger
\* the depth band without its edges
StartCondition0Exclusive(depth) == Bool(fabs(depth - _targetDepth) < _depthBand)

\* sampler.cpp:64
StartCondition0(depth) == Bool(fabs(depth - _targetDepth) <= _depthBand)
\* sampler.cpp:66
StartCondition1(temperature) ==
    Bool(fabs(temperature - _targetTemperature) <= _temperatureBand)
\* the wait compared with > instead of >=
StartCondition2Late(time_now) ==
    Bool(/\ _diveStartTime <= time_now
         /\ U32(time_now - _diveStartTime) > _waitPumpStart)

\* sampler.cpp:68
StartCondition2(time_now) ==
    Bool(/\ _diveStartTime <= time_now
         /\ U32(time_now - _diveStartTime) >= _waitPumpStart)
\* the volume stop true only at the tick count of the target itself
EndCondition0Exact(ticks) == Bool(ticks = _targetFlowVol)

\* sampler.cpp:71
EndCondition0(ticks) == Bool(ticks >= _targetFlowVol)
\* sampler.cpp:73
EndCondition1(time_now, pumpDuration) ==
    Bool(_pumpStartTime <= time_now /\ pumpDuration >= _waitPumpEnd)
\* the flow decay stop without its test for a captured peak
EndCondition2NoPeak == Bool(_curFlowrate <= _minFlowrate)

\* sampler.cpp:75-76
EndCondition2 == Bool(_maxFlowrate > 0 /\ _curFlowrate <= _minFlowrate)

\* the start conditions remembered: once true, a condition stays true
NewStartConditionsSticky(depth, temperature, time_now) ==
    [i \in CondIdx |->
        IF _startConditions[i] = 1 THEN 1
        ELSE CASE i = 0 -> StartCondition0(depth)
               [] i = 1 -> StartCondition1(temperature)
               [] i = 2 -> StartCondition2(time_now)]

\* sampler.cpp:63-68
NewStartConditions(depth, temperature, time_now) ==
    [i \in CondIdx |->
        CASE i = 0 -> StartCondition0(depth)
          [] i = 1 -> StartCondition1(temperature)
          [] i = 2 -> StartCondition2(time_now)]

NewEndConditions(time_now, ticks, pumpDuration) ==
    [i \in CondIdx |->
        CASE i = 0 -> EndCondition0(ticks)
          [] i = 1 -> EndCondition1(time_now, pumpDuration)
          [] i = 2 -> EndCondition2]

\* the start conditions combined by AND: every enabled one must be true
StartLoopAll(pumpOn, j, startMask, startConds) ==
    IF /\ \E i \in CondIdx : startMask[i] # 0
       /\ \A i \in CondIdx : startMask[i] # 0 => startConds[i] # 0
    THEN 1 ELSE pumpOn

\* the start mask left out of the loop
StartLoopNoMask(pumpOn, j, startMask, startConds) ==
    U8(BitOr(pumpOn, BitOr(startConds[0], BitOr(startConds[1], startConds[2]))))

RECURSIVE StartLoop(_, _, _, _)
\* sampler.cpp:79-81
StartLoop(pumpOn, j, startMask, startConds) ==
    IF j = N_START_COND THEN pumpOn
    ELSE StartLoop(U8(BitOr(pumpOn, startMask[j] * startConds[j])), j + 1,
                   startMask, startConds)

RECURSIVE EndLoop(_, _, _, _)
\* sampler.cpp:82-84
EndLoop(pumpOn, k, endMask, endConds) ==
    IF k = N_END_COND THEN pumpOn
    ELSE EndLoop(U8(BitAnd(pumpOn, LogicalNot(endMask[k] * endConds[k]))), k + 1,
                 endMask, endConds)

\* the stop loop run before the start loop: a start condition overrides a stop
PumpCommandStopFirst(startMask, startConds, endMask, endConds) ==
    LET pumpOn == StartLoop(EndLoop(0, 0, endMask, endConds), 0,
                            startMask, startConds)
    IN  IF pumpOn = 0 THEN PUMP_OFF ELSE PUMP_ON

\* sampler.cpp:78-86
PumpCommand(startMask, startConds, endMask, endConds) ==
    LET pumpOn == EndLoop(StartLoop(0, 0, startMask, startConds), 0,
                          endMask, endConds)
    IN  IF pumpOn = 0 THEN PUMP_OFF ELSE PUMP_ON

\* the decision remembered: switching the pump on also stamps the pump start
checkPumpTriggerStamping(depth, temperature, time_now, ticks, pumpDuration) ==
    LET command == PumpCommand(_startConditionMask,
                               NewStartConditions(depth, temperature, time_now),
                               _endConditionMask,
                               NewEndConditions(time_now, ticks, pumpDuration))
    IN  /\ _startConditions' = NewStartConditions(depth, temperature, time_now)
        /\ _endConditions' = NewEndConditions(time_now, ticks, pumpDuration)
        /\ _pumpStartTime' = IF command = PUMP_ON THEN time_now ELSE _pumpStartTime
        /\ call' = Returned("checkPumpTrigger",
                            <<depth, temperature, time_now, ticks, pumpDuration>>,
                            command)
        /\ UNCHANGED wifiVars
        /\ UNCHANGED <<configVars, _maxFlowrate, maskVars, _diveStartTime,
                       flowVars, cfgIn, maskState>>

\* sampler.cpp:61-87
checkPumpTrigger(depth, temperature, time_now, ticks, pumpDuration) ==
    /\ _startConditions' = NewStartConditions(depth, temperature, time_now)
    /\ _endConditions' = NewEndConditions(time_now, ticks, pumpDuration)
    /\ call' = Returned("checkPumpTrigger",
                        <<depth, temperature, time_now, ticks, pumpDuration>>,
                        PumpCommand(_startConditionMask,
                                    NewStartConditions(depth, temperature, time_now),
                                    _endConditionMask,
                                    NewEndConditions(time_now, ticks, pumpDuration)))
    /\ UNCHANGED wifiVars
    /\ UNCHANGED <<configVars, _maxFlowrate, maskVars, timeVars, flowVars,
                   cfgIn, maskState>>

\* ------------------------------------------------------------ flow rate
\* sampler.cpp:91
LoggedFlow(flowLog, curFlowIdx, flowData) ==
    [flowLog EXCEPT ![curFlowIdx] = flowData]
\* the index stepping backwards through the log
NextFlowIdxBack(curFlowIdx) == (curFlowIdx + NUM_FLOW_LOGS - 1) % NUM_FLOW_LOGS

\* sampler.cpp:92
NextFlowIdx(curFlowIdx) == (curFlowIdx + 1) % NUM_FLOW_LOGS
\* sampler.cpp:94, uint32_t difference times 12.f
FlowrateOver(flowLog, curFlowIdx, flowData) ==
    ToFloat(U32(flowData - flowLog[curFlowIdx])) * 12
\* the peak taken against the sample stored last instead of the slot at the index
MaxFlowrateNewest(flowLog, curFlowIdx, flowData) ==
    ToFloat(U32(U32(flowData
                    - flowLog[(curFlowIdx + NUM_FLOW_LOGS - 1) % NUM_FLOW_LOGS]) * 12))

\* sampler.cpp:106, uint32_t difference times the int 12, then stored in a float
MaxFlowrateOver(flowLog, curFlowIdx, flowData) ==
    ToFloat(U32(U32(flowData - flowLog[curFlowIdx]) * 12))

updateCurrentFlowrate(flowData) ==
    /\ _flowLog' = LoggedFlow(_flowLog, _curFlowIdx, flowData)
    /\ _curFlowIdx' = NextFlowIdx(_curFlowIdx)
    /\ _curFlowrate' = FlowrateOver(LoggedFlow(_flowLog, _curFlowIdx, flowData),
                                    NextFlowIdx(_curFlowIdx), flowData)
    /\ samples' = Append(samples, flowData)
    /\ call' = Returned("updateCurrentFlowrate", <<flowData>>, 0)
    /\ UNCHANGED wifiVars
    /\ UNCHANGED <<configVars, _maxFlowrate, condVars, maskVars, timeVars,
                   cfgIn, maskState>>

computeMaxFlowrate(flowData) ==
    /\ _maxFlowrate' = MaxFlowrateOver(_flowLog, _curFlowIdx, flowData)
    /\ call' = Returned("computeMaxFlowrate", <<flowData>>, 0)
    /\ UNCHANGED wifiVars
    /\ UNCHANGED <<configVars, condVars, maskVars, timeVars, flowVars,
                   cfgIn, maskState>>

\* sampler.cpp:110-113
setDiveStartTime(diveStartTime) ==
    /\ _diveStartTime' = diveStartTime
    /\ call' = Returned("setDiveStartTime", <<diveStartTime>>, 0)
    /\ UNCHANGED wifiVars
    /\ UNCHANGED <<configVars, _maxFlowrate, condVars, maskVars, _pumpStartTime,
                   flowVars, cfgIn, maskState>>

\* sampler.cpp:115-118
setPumpStartTime(pumpStartTime) ==
    /\ _pumpStartTime' = pumpStartTime
    /\ call' = Returned("setPumpStartTime", <<pumpStartTime>>, 0)
    /\ UNCHANGED wifiVars
    /\ UNCHANGED <<configVars, _maxFlowrate, condVars, maskVars, _diveStartTime,
                   flowVars, cfgIn, maskState>>

\* ------------------------------------------------------------ construction
\* The four arrays of sampler.h:80-84 have no initializer and the constructor
\* (sampler.cpp:4-6) is empty: their bytes are whatever the storage held.
\* The images taken here are zeroed storage and storage filled with one
\* non-zero byte, 1 or 2, each array on its own.
GarbageBytes == {0, 1, 2}
GarbageArrays == {[i \in CondIdx |-> b] : b \in GarbageBytes}

NoCall == [op |-> "Sampler", args |-> <<>>, ret |-> 0]
\* no setDeploymentConfig call yet: the fields hold the defaults of sampler.h:64-74
NoConfig == <<>>

NoPost == [nth |-> 0, bytes |-> 0, offset |-> 0]

\* no connectWiFi call yet, the link down; no upload yet
WiFiConstructed ==
    /\ wifiStatus = "WL_DISCONNECTED"
    /\ wifi_attempt = 0
    /\ connectPc = "idle"
    /\ fileSize = 0
    /\ filePos = 0
    /\ bytesRead = 0
    /\ nthChunk = 0
    /\ httpCode = 0
    /\ uploadPc = "idle"
    /\ sent = NoPost
    /\ acked = 0

\* sampler.h:64-95, the default member initializers, and the flow fields as
\* left by the flow history h
Constructed(startMask, endMask, conds, h) ==
    /\ WiFiConstructed
    /\ _minFlowrate = MIN_FLOWRATE
    /\ _waitPumpEnd = UINT_MAX
    /\ _targetFlowVol = UINT_MAX
    /\ _waitPumpStart = UINT_MAX
    /\ _temperatureBand = 0
    /\ _targetTemperature = ABS_ZERO_C
    /\ _depthBand = 0
    /\ _targetDepth = FLT_MAX
    /\ _ticksPerLiter = 0
    /\ _maxFlowrate = h.max
    /\ _startConditions = conds
    /\ _endConditions = conds
    /\ _startConditionMask = startMask
    /\ _endConditionMask = endMask
    /\ _diveStartTime = UINT_MAX
    /\ _pumpStartTime = UINT_MAX
    /\ _flowLog = h.log
    /\ _curFlowIdx = h.idx
    /\ _curFlowrate = h.cur
    /\ call = NoCall
    /\ cfgIn = NoConfig
    /\ maskState = "uninit"
    /\ samples = h.samples

RECURSIVE FlowAfter(_)
\* the flow fields after updateCurrentFlowrate was called with each of s in turn
FlowAfter(s) ==
    IF s = <<>>
    THEN [log |-> [i \in LogIdx |-> 0], idx |-> 0, cur |-> 0]
    ELSE LET before == FlowAfter(SubSeq(s, 1, Len(s) - 1))
             flowData == s[Len(s)]
             log == LoggedFlow(before.log, before.idx, flowData)
             idx == NextFlowIdx(before.idx)
         IN  [log |-> log, idx |-> idx, cur |-> FlowrateOver(log, idx, flowData)]

\* the flow fields after the updates s, computeMaxFlowrate(s[n]) having been
\* called right after the n-th of them (n = 0: never)
FlowHistory(s, n) ==
    LET end == FlowAfter(s)
        at == FlowAfter(SubSeq(s, 1, n))
    IN  [log |-> end.log, idx |-> end.idx, cur |-> end.cur, samples |-> s,
         max |-> IF n = 0 THEN 0 ELSE MaxFlowrateOver(at.log, at.idx, s[n])]

NoFlowHistory == FlowHistory(<<>>, 0)

\* ------------------------------------------------------------ the engine, tick by tick
\* Operator inputs: the deployments of samplerTest.cpp (depth, temperature,
\* time, volume; the volume one at the depth of the first), one stopping on
\* flow decay alone, one with every condition set, one with none, and one
\* without flow meter calibration.
TICKS_PER_L == 4600
DeployConfigs ==
    { <<0, 2000, 500, ABS_ZERO_C, 0, 5, 0, 0, TICKS_PER_L>>,
      <<0, 0, 0, 1300, 200, 5, 0, 0, TICKS_PER_L>>,
      <<0, 0, 0, ABS_ZERO_C, 0, 2, 2, 0, TICKS_PER_L>>,
      <<0, 2000, 500, ABS_ZERO_C, 0, 0, 1, 20, TICKS_PER_L>>,
      <<50, 2000, 500, ABS_ZERO_C, 0, 0, 0, 0, TICKS_PER_L>>,
      <<50, 2000, 500, 1300, 200, 5, 2, 20, TICKS_PER_L>>,
      <<0, 0, 0, ABS_ZERO_C, 0, 0, 0, 0, TICKS_PER_L>>,
      <<0, 2000, 500, ABS_ZERO_C, 0, 0, 0, 0, 0>> }

\* Sensor readings of one tick: depth, temperature, time, cumulative ticks,
\* pump duration.  Depth 23 m is in the band 20 +/- 5 m and 13 m is not;
\* 13 C is in the band 13 +/- 2 C and 17 C is not.  The last reading is taken
\* at the largest time a uint32_t holds.
Readings ==
    { <<1300, 1700, 60, 0, 0>>,
      <<2300, 1700, 60, 0, 0>>,
      <<1300, 1300, 60, 0, 0>>,
      <<1300, 1700, 120, 0, 0>>,
      <<2300, 1300, 120, 4600, 60>>,
      <<2300, 1700, 120, 20 * TICKS_PER_L, 60>>,
      <<1300, 1300, 120, 4600, 300>>,
      <<1300, 1700, 120, 20 * TICKS_PER_L, 300>>,
      <<2300, 1700, UINT_MAX, 0, 300>> }
DiveStartTimes == {0, 90}
PumpStartTimes == {30}

\* The flow meter's history before the ticks looked at: none; a pump running
\* steadily at 200 ticks a second, its peak captured; a pump whose flow
\* stopped after the capture.
FlowHistories ==
    { NoFlowHistory,
      FlowHistory(<<200, 400, 600, 800, 1000, 1200, 1400>>, 6),
      FlowHistory(<<200, 400, 600, 800, 1000, 1200, 1200, 1200, 1200, 1200>>, 6) }

Init ==
    \E startMask \in GarbageArrays, endMask \in GarbageArrays,
       conds \in GarbageArrays, h \in FlowHistories :
        Constructed(startMask, endMask, conds, h)

Configure == \E c \in DeployConfigs : setDeploymentConfig(c)
Validate == isValidUserConfig
Tick == \E r \in Readings : checkPumpTrigger(r[1], r[2], r[3], r[4], r[5])
DiveStart == \E t \in DiveStartTimes : setDiveStartTime(t)
PumpStart == \E t \in PumpStartTimes : setPumpStartTime(t)

Next == Configure \/ Validate \/ Tick \/ DiveStart \/ PumpStart

Spec == Init /\ [][Next]_vars

\* ------------------------------------------------------------ the conditions, as specified
\* What the last call was, and the readings it was given.
Checked == call.op = "checkPumpTrigger"
Command == call.ret
depthRead == call.args[1]
temperatureRead == call.args[2]
timeRead == call.args[3]
ticksRead == call.args[4]
durationRead == call.args[5]

\* start[0] depth in band, start[1] temperature in band, start[2] dive wait elapsed
StartTrue(i) ==
    CASE i = 0 -> /\ _targetDepth - _depthBand <= depthRead
                  /\ depthRead <= _targetDepth + _depthBand
      [] i = 1 -> /\ _targetTemperature - _temperatureBand <= temperatureRead
                  /\ temperatureRead <= _targetTemperature + _temperatureBand
      [] i = 2 -> /\ timeRead >= _diveStartTime
                  /\ timeRead - _diveStartTime >= _waitPumpStart
\* stop[0] volume reached, stop[1] duration reached, stop[2] flow decayed
StopTrue(k) ==
    CASE k = 0 -> ticksRead >= _targetFlowVol
      [] k = 1 -> timeRead >= _pumpStartTime /\ durationRead >= _waitPumpEnd
      [] k = 2 -> _maxFlowrate > 0 /\ _curFlowrate <= _minFlowrate
StartEnabled(i) == _startConditionMask[i] # 0
StopEnabled(k) == _endConditionMask[k] # 0
StartFires(i) == StartEnabled(i) /\ StartTrue(i)
StopFires(k) == StopEnabled(k) /\ StopTrue(k)

\* ------------------------------------------------------------ C1
\* C1: whenever checkPumpTrigger is called and some stop condition is both
\* enabled in the stop mask and true of the readings, it returns PUMP_OFF,
\* whatever the start conditions are.
StopDominates ==
    (Checked /\ \E k \in CondIdx : StopFires(k)) => Command = PUMP_OFF

\* a validated deployment where a start condition and a stop condition fire
\* at the same tick
StopDominatesWitness ==
    /\ Checked
    /\ maskState = "current"
    /\ \E j \in CondIdx : StartFires(j)
    /\ \E k \in CondIdx : StopFires(k)
    /\ Command = PUMP_OFF

\* ------------------------------------------------------------ C2
\* C2: once isValidUserConfig has written the masks, whenever checkPumpTrigger
\* is called and at least one start condition is enabled and true while no
\* enabled stop condition is true, it returns PUMP_ON: one start condition is
\* enough, whatever the other enabled start conditions say.
StartRuleIsOr ==
    (/\ Checked
     /\ maskState # "uninit"
     /\ \E j \in CondIdx : StartFires(j)
     /\ \A k \in CondIdx : ~StopFires(k))
        => Command = PUMP_ON

\* a validated deployment with two start conditions enabled, one of them true
\* and the other false, and no stop firing
StartRuleIsOrWitness ==
    /\ Checked
    /\ maskState = "current"
    /\ \E i, j \in CondIdx :
          /\ StartFires(i)
          /\ StartEnabled(j) /\ ~StartTrue(j)
    /\ \E k \in CondIdx : StopEnabled(k)
    /\ \A k \in CondIdx : ~StopFires(k)
    /\ Command = PUMP_ON

\* ------------------------------------------------------------ C3
\* C3: whenever checkPumpTrigger is called and every start condition is
\* disabled in the start mask or false of the readings, it returns PUMP_OFF,
\* whatever the stop conditions are.
NoStartNoPump ==
    (Checked /\ \A j \in CondIdx : ~StartFires(j)) => Command = PUMP_OFF

\* a configuration isValidUserConfig accepted, a true start condition that is
\* disabled, an enabled one that is false, and no stop condition true
NoStartNoPumpWitness ==
    /\ Checked
    /\ maskState = "current"
    /\ _ticksPerLiter > 0
    /\ \E j \in CondIdx : StartEnabled(j)
    /\ \E k \in CondIdx : StopEnabled(k)
    /\ \E j \in CondIdx : StartTrue(j) /\ ~StartEnabled(j)
    /\ \A j \in CondIdx : ~StartFires(j)
    /\ \A k \in CondIdx : ~StopTrue(k)
    /\ Command = PUMP_OFF

\* ------------------------------------------------------------ C5
\* The operator left a condition unset: the argument of the last
\* setDeploymentConfig call that belongs to it has its disabled value.
StartUnset(i) ==
    CASE i = 0 -> CfgTargetDepth(cfgIn) <= 0
      [] i = 1 -> CfgTargetTemperature(cfgIn) <= ABS_ZERO_C
      [] i = 2 -> CfgWaitPumpStart(cfgIn) = 0
StopUnset(k) ==
    CASE k = 0 -> CfgTargetFlowVol(cfgIn) = 0
      [] k = 1 -> CfgWaitPumpEnd(cfgIn) = 0
      [] k = 2 -> CfgMinFlowrate(cfgIn) = 0
\* checkPumpTrigger was called after setDeploymentConfig and then isValidUserConfig
CheckedAfterValidation == Checked /\ cfgIn # NoConfig /\ maskState = "current"
\* the command does not start the pump on start condition i alone
StartInert(i) ==
    (\A j \in CondIdx \ {i} : ~StartFires(j)) => Command = PUMP_OFF
\* the command does not stop the pump on stop condition k alone
StopInert(k) ==
    (/\ \E j \in CondIdx : StartFires(j)
     /\ \A m \in CondIdx \ {k} : ~StopFires(m)) => Command = PUMP_ON

\* C5 as claimed: after setDeploymentConfig and isValidUserConfig, a condition
\* the operator left unset never starts the pump by itself (a start condition)
\* and never forces it off by itself (a stop condition), for every configuration.
UnsetIsInertAlways ==
    CheckedAfterValidation =>
        /\ \A i \in CondIdx : StartUnset(i) => StartInert(i)
        /\ \A k \in CondIdx : StopUnset(k) => StopInert(k)

\* C5: after setDeploymentConfig and isValidUserConfig, a start condition the
\* operator left unset never starts the pump by itself, and an unset volume or
\* duration stop never forces it off by itself; an unset (zero) min flowrate
\* never forces it off by itself provided ticksPerLiter > 0.
UnsetIsInert ==
    CheckedAfterValidation =>
        /\ \A i \in CondIdx : StartUnset(i) => StartInert(i)
        /\ \A k \in CondIdx :
              (StopUnset(k) /\ (k = 2 => CfgTicksPerLiter(cfgIn) > 0))
                  => StopInert(k)

\* an unset start condition and an unset stop condition are both true of the
\* readings of one tick (the zero dive wait has elapsed, the flow is not above
\* the zero threshold after a captured peak), and the command follows the
\* other conditions
UnsetIsInertWitness ==
    /\ CheckedAfterValidation
    /\ CfgTicksPerLiter(cfgIn) > 0
    /\ StartUnset(2) /\ StartTrue(2)
    /\ StopUnset(2) /\ StopTrue(2)
    /\ \E j \in CondIdx : StartFires(j)
    /\ Command = PUMP_ON

\* ------------------------------------------------------------ C7
\* C7: until isValidUserConfig has been called the masks are all disabled, so
\* checkPumpTrigger returns PUMP_OFF for every input, also after
\* setDeploymentConfig.
NoPumpBeforeValidation ==
    (maskState = "uninit" /\ Checked) => Command = PUMP_OFF

\* ------------------------------------------------------------ C8
\* C8: while _diveStartTime is UINT_MAX the dive wait condition start[2] is
\* false after every checkPumpTrigger call, and while _pumpStartTime is
\* UINT_MAX the duration condition stop[1] is false.
UnsetTimesUnsatisfiable ==
    Checked =>
        /\ _diveStartTime = UINT_MAX => _startConditions[2] = 0
        /\ _pumpStartTime = UINT_MAX => _endConditions[1] = 0

\* ------------------------------------------------------------ C9
\* the dive has started and the configured wait has elapsed at the tick
WaitElapsed ==
    timeRead >= _diveStartTime /\ timeRead - _diveStartTime >= _waitPumpStart

\* C9 as claimed: with validated masks, the dive wait start condition enabled
\* and the dive start time set, checkPumpTrigger does not return PUMP_ON
\* before the wait has elapsed, and returns PUMP_ON once it has unless an
\* enabled stop is true.
WaitIsMinimumAlways ==
    (/\ Checked /\ maskState = "current" /\ StartEnabled(2)
     /\ _diveStartTime # UINT_MAX) =>
        /\ Command = PUMP_ON => WaitElapsed
        /\ (WaitElapsed /\ \A k \in CondIdx : ~StopFires(k)) => Command = PUMP_ON

\* C9: with validated masks and the dive wait the only enabled start
\* condition, checkPumpTrigger does not return PUMP_ON before the wait has
\* elapsed; with the dive wait enabled (alone or not) it returns PUMP_ON at
\* every tick where the wait has elapsed, the first included, unless an
\* enabled stop condition is true.
WaitIsMinimum ==
    (Checked /\ maskState # "uninit" /\ StartEnabled(2)) =>
        /\ (~StartEnabled(0) /\ ~StartEnabled(1) /\ Command = PUMP_ON) => WaitElapsed
        /\ (WaitElapsed /\ \A k \in CondIdx : ~StopFires(k)) => Command = PUMP_ON

\* the pump is switched on at the tick where the time since the dive start
\* equals the wait, the dive wait being the only enabled start condition
WaitIsMinimumWitness ==
    /\ Checked
    /\ maskState = "current"
    /\ StartEnabled(2) /\ ~StartEnabled(0) /\ ~StartEnabled(1)
    /\ _diveStartTime # UINT_MAX
    /\ timeRead - _diveStartTime = _waitPumpStart
    /\ Command = PUMP_ON

\* ------------------------------------------------------------ configuration alone
\* Every combination of these operator inputs, each field with its disabled
\* value and a usable one; the target depth also at MAX_DEPTH, out of range.
ConfigInputs ==
    {0, 50} \X {0, 2000, MAX_DEPTH} \X {0, 500} \X {ABS_ZERO_C, 1300} \X {200}
        \X {0, 5} \X {0, 2} \X {0, 20} \X {0, TICKS_PER_L}

InitConfig ==
    \E startMask \in GarbageArrays, endMask \in GarbageArrays :
        Constructed(startMask, endMask, [i \in CondIdx |-> 0], NoFlowHistory)

ConfigureAny == \E c \in ConfigInputs : setDeploymentConfig(c)

NextConfig == ConfigureAny \/ Validate

SpecConfig == InitConfig /\ [][NextConfig]_vars

\* ------------------------------------------------------------ C4
Validated == call.op = "isValidUserConfig"

\* C4: isValidUserConfig returns 1 if ticksPerLiter > 0 and some start mask
\* entry and some stop mask entry are enabled, and 0 otherwise.
ValidIffCalibratedStartStop ==
    Validated =>
        /\ call.ret \in {0, 1}
        /\ call.ret = 1 <=>
              /\ _ticksPerLiter > 0
              /\ \E i \in CondIdx : StartEnabled(i)
              /\ \E k \in CondIdx : StopEnabled(k)

\* rejected for the missing calibration alone
ValidIffCalibratedStartStopWitness ==
    /\ Validated
    /\ _ticksPerLiter = 0
    /\ \E i \in CondIdx : StartEnabled(i)
    /\ \E k \in CondIdx : StopEnabled(k)
    /\ call.ret = 0

\* ------------------------------------------------------------ C6
Configured == cfgIn # NoConfig

\* C6 as claimed: setDeploymentConfig stores the maximal value for a zero wait
\* time, pump duration, target volume and min flowrate, the unreachable depth
\* for a non-positive target depth and absolute zero for a target temperature
\* at or below it.
SentinelForEveryUnset ==
    Configured =>
        /\ CfgWaitPumpStart(cfgIn) = 0 => _waitPumpStart = UINT_MAX
        /\ CfgWaitPumpEnd(cfgIn) = 0 => _waitPumpEnd = UINT_MAX
        /\ CfgTargetFlowVol(cfgIn) = 0 => _targetFlowVol = UINT_MAX
        /\ CfgMinFlowrate(cfgIn) = 0 => _minFlowrate = FLT_MAX
        /\ CfgTargetDepth(cfgIn) <= 0 => _targetDepth = FLT_MAX
        /\ CfgTargetTemperature(cfgIn) <= ABS_ZERO_C => _targetTemperature = ABS_ZERO_C

\* C6: setDeploymentConfig stores the maximal value for a zero pump duration
\* and a zero target volume, the unreachable depth for a non-positive target
\* depth and absolute zero for a target temperature at or below it; a zero
\* wait time and a zero min flowrate are stored as 0.
SentinelForUnset ==
    Configured =>
        /\ CfgWaitPumpStart(cfgIn) = 0 => _waitPumpStart = 0
        /\ CfgWaitPumpEnd(cfgIn) = 0 => _waitPumpEnd = UINT_MAX
        /\ CfgTargetFlowVol(cfgIn) = 0 => _targetFlowVol = UINT_MAX
        /\ CfgMinFlowrate(cfgIn) = 0 => _minFlowrate = 0
        /\ CfgTargetDepth(cfgIn) <= 0 => _targetDepth = FLT_MAX
        /\ CfgTargetTemperature(cfgIn) <= ABS_ZERO_C => _targetTemperature = ABS_ZERO_C

\* setDeploymentConfig has just stored a configuration with every field unset
SentinelForUnsetWitness ==
    /\ call.op = "setDeploymentConfig"
    /\ CfgWaitPumpStart(cfgIn) = 0 /\ CfgWaitPumpEnd(cfgIn) = 0
    /\ CfgTargetFlowVol(cfgIn) = 0 /\ CfgMinFlowrate(cfgIn) = 0
    /\ CfgTargetDepth(cfgIn) <= 0 /\ CfgTargetTemperature(cfgIn) <= ABS_ZERO_C
    /\ CfgTicksPerLiter(cfgIn) > 0
    /\ _waitPumpEnd = UINT_MAX /\ _targetFlowVol = UINT_MAX

\* ------------------------------------------------------------ the flow estimator alone
\* cumulative tick counts passed by the caller, and how many calls are followed
MaxSamples == 7
FlowData == {0, 100, 300}

InitFlow ==
    Constructed([i \in CondIdx |-> 0], [i \in CondIdx |-> 0],
                [i \in CondIdx |-> 0], NoFlowHistory)

Sample ==
    /\ Len(samples) < MaxSamples
    /\ \E flowData \in FlowData : updateCurrentFlowrate(flowData)
Capture == \E flowData \in FlowData : computeMaxFlowrate(flowData)

NextFlow == Sample \/ Capture

SpecFlow == InitFlow /\ [][NextFlow]_vars

\* ------------------------------------------------------------ C10
Updated == call.op = "updateCurrentFlowrate"

\* the cumulative tick count never went down
Cumulative == \A i \in 1 .. (Len(samples) - 1) : samples[i] <= samples[i + 1]

\* C10: after the k-th call of updateCurrentFlowrate, k > 5, the current flow
\* rate is 12 times the sample of this call minus the sample passed 5 calls
\* earlier (looked at for tick counts that never go down).
FlowrateOverFiveSteps ==
    (Updated /\ Cumulative /\ Len(samples) > NUM_FLOW_LOGS) =>
        _curFlowrate =
            ToFloat(U32(samples[Len(samples)]
                        - samples[Len(samples) - NUM_FLOW_LOGS])) * 12

\* ------------------------------------------------------------ the pump running
\* The flow meter read once a second while the engine decides: the tick count
\* grows by one of these rates (ticks per second) between two reads, and
\* MaxReads reads are followed.
MaxReads == 6
Rates == {0, 10, 200}
\* the cumulative tick count at the last read (0 before the first)
LastSample == IF samples = <<>> THEN 0 ELSE samples[Len(samples)]

\* A deployment that starts on depth (20 +/- 5 m) and stops on flow decay
\* alone, below 0.5 L/min.
PumpConfigs == { <<50, 2000, 500, ABS_ZERO_C, 0, 0, 0, 0, TICKS_PER_L>> }

InitPump ==
    \E startMask \in GarbageArrays, endMask \in GarbageArrays :
        Constructed(startMask, endMask, [i \in CondIdx |-> 0], NoFlowHistory)

ConfigurePump == \E c \in PumpConfigs : setDeploymentConfig(c)
Meter ==
    /\ Len(samples) < MaxReads
    /\ \E r \in Rates : updateCurrentFlowrate(U32(LastSample + r))
CapturePeak == computeMaxFlowrate(LastSample)
\* depth in band, one minute after the pump start
TickPump == checkPumpTrigger(2300, 1700, 120, LastSample, 60)

NextPump == ConfigurePump \/ Validate \/ Meter \/ CapturePeak \/ TickPump

SpecPump == InitPump /\ [][NextPump]_vars

\* ------------------------------------------------------------ C11
\* the tick count grew by r at every read, the first included
ConstantRate(r) == \A i \in 1 .. Len(samples) : samples[i] = i * r

\* C11: after N >= 5 calls of updateCurrentFlowrate with a tick count growing
\* by a constant r at every call, the current flow rate is r x 60.
ConstantRateTimesSixty ==
    \A r \in Rates :
        (Updated /\ Len(samples) >= NUM_FLOW_LOGS /\ ConstantRate(r)) =>
            _curFlowrate = ToFloat(r) * 60

\* ------------------------------------------------------------ C12
Captured == call.op = "computeMaxFlowrate"
\* fewer than 5 samples have been stored
WindowUnfilled == Len(samples) < NUM_FLOW_LOGS
\* a validated deployment with the flow decay stop enabled, the meter having
\* counted water
DecayArmedDeployment ==
    /\ cfgIn # NoConfig /\ maskState = "current"
    /\ StopEnabled(2) /\ LastSample > 0

CheckWritesConditionsOnly ==
    [][call'.op = "checkPumpTrigger" =>
          UNCHANGED <<configVars, maskVars, _flowLog, _curFlowIdx, _curFlowrate,
                      _maxFlowrate, timeVars>>]_vars

\* a check of a configured, validated deployment with both timestamps set and
\* a flow history has rewritten both condition arrays and switched the pump on
CheckWritesConditionsOnlyWitness ==
    /\ Checked /\ cfgIn # NoConfig /\ maskState = "current"
    /\ _diveStartTime # UINT_MAX /\ _pumpStartTime # UINT_MAX
    /\ samples # <<>> /\ _maxFlowrate > 0
    /\ \E i \in CondIdx : _startConditions[i] = 1
    /\ \E k \in CondIdx : _endConditions[k] = 1
    /\ Command = PUMP_ON

\* ------------------------------------------------------------ the band edges
\* A deployment starting at 20 +/- 5 m or at 13 +/- 2 C, and readings at the
\* target, on each edge of the band and one hundredth outside each edge.
BandConfigs == { <<0, 2000, 500, 1300, 200, 5, 0, 0, TICKS_PER_L>> }
BandDepths == {1499, 1500, 2000, 2500, 2501}
BandTemperatures == {1099, 1100, 1300, 1500, 1501}

InitBand ==
    \E startMask \in GarbageArrays, endMask \in GarbageArrays :
        Constructed(startMask, endMask, [i \in CondIdx |-> 0], NoFlowHistory)

ConfigureBand == \E c \in BandConfigs : setDeploymentConfig(c)
TickBand ==
    \E depth \in BandDepths, temperature \in BandTemperatures :
        checkPumpTrigger(depth, temperature, 60, 0, 0)

NextBand == ConfigureBand \/ Validate \/ TickBand

SpecBand == InitBand /\ [][NextBand]_vars

\* ------------------------------------------------------------ C14
\* C14: after a check the depth start condition is true exactly when the
\* depth read is no more than the depth band below or above the target depth,
\* and the temperature start condition exactly when the temperature read is
\* no more than the temperature band below or above the target temperature.
BandInclusiveSymmetric ==
    Checked =>
        /\ _startConditions[0] # 0 <=>
              /\ _targetDepth - _depthBand <= depthRead
              /\ depthRead <= _targetDepth + _depthBand
        /\ _startConditions[1] # 0 <=>
              /\ _targetTemperature - _temperatureBand <= temperatureRead
              /\ temperatureRead <= _targetTemperature + _temperatureBand

\* the depth read is exactly the band above the target, the temperature read
\* exactly the band below, both conditions are true and the pump is on
BandInclusiveSymmetricWitness ==
    /\ Checked /\ maskState = "current"
    /\ _depthBand > 0 /\ _temperatureBand > 0
    /\ depthRead = _targetDepth + _depthBand
    /\ temperatureRead = _targetTemperature - _temperatureBand
    /\ _startConditions[0] = 1 /\ _startConditions[1] = 1
    /\ Command = PUMP_ON

\* ------------------------------------------------------------ the units
\* Operator inputs in minutes and liters: a short deployment (2 min wait, 5 min
\* of pumping, 20 L) and a long one whose products with 60 and with
\* ticksPerLiter do not fit the word.
LongMinutes == 20000
LongLiters == 300
UnitConfigs ==
    { <<0, 2000, 500, ABS_ZERO_C, 0, 5, 2, 20, TICKS_PER_L>>,
      <<0, 2000, 500, ABS_ZERO_C, 0, LongMinutes, LongMinutes, LongLiters,
        TICKS_PER_L>> }
\* readings before any threshold, at the thresholds of the short deployment,
\* and at the values the long deployment's products wrap to
UnitReadings ==
    { <<2300, 1700, 120, 0, 60>>,
      <<2300, 1700, 400, 20 * TICKS_PER_L, 5 * 60>>,
      <<2300, 1700, UINT_MAX, U32(LongLiters * TICKS_PER_L), U32(LongMinutes * 60)>> }

InitUnits ==
    \E startMask \in GarbageArrays, endMask \in GarbageArrays :
        Constructed(startMask, endMask, [i \in CondIdx |-> 0], NoFlowHistory)

ConfigureUnits == \E c \in UnitConfigs : setDeploymentConfig(c)
TickUnits == \E r \in UnitReadings : checkPumpTrigger(r[1], r[2], r[3], r[4], r[5])

NextUnits == ConfigureUnits \/ Validate \/ DiveStart \/ PumpStart \/ TickUnits

SpecUnits == InitUnits /\ [][NextUnits]_vars

\* ------------------------------------------------------------ C15
\* C15: for every configuration the dive wait threshold is 60 times the wait
\* in minutes, the duration stop is true at a check after the pump start
\* exactly when the pump duration read is at least 60 times the nonzero max
\* pump duration in minutes, and the volume stop is true exactly when the
\* ticks read are at least the nonzero target volume in liters times
\* ticksPerLiter.
UnitConversionExact ==
    (Checked /\ Configured) =>
        /\ _waitPumpStart = 60 * CfgWaitPumpStart(cfgIn)
        /\ (CfgWaitPumpEnd(cfgIn) > 0 /\ _pumpStartTime <= timeRead) =>
              (_endConditions[1] # 0 <=>
                  durationRead >= 60 * CfgWaitPumpEnd(cfgIn))
        /\ CfgTargetFlowVol(cfgIn) > 0 =>
              (_endConditions[0] # 0 <=>
                  ticksRead >= CfgTargetFlowVol(cfgIn) * CfgTicksPerLiter(cfgIn))

\* ------------------------------------------------------------ the volume pumped
\* The deployment of testVolume1 (20 L, start at 20 +/- 5 m or one minute
\* after the dive start) and one that also stops after 5 minutes; the meter
\* counts 10 L or nothing between two reads, and the engine is asked with the
\* count of the last read, in and out of the depth band.
VolumeConfigs ==
    { <<0, 2000, 500, ABS_ZERO_C, 0, 0, 1, 20, TICKS_PER_L>>,
      <<0, 2000, 500, ABS_ZERO_C, 0, 5, 0, 20, TICKS_PER_L>> }
VolumeRates == {0, 10 * TICKS_PER_L}
VolumeDepths == {1300, 2300}

InitVolume ==
    \E startMask \in GarbageArrays, endMask \in GarbageArrays :
        Constructed(startMask, endMask, [i \in CondIdx |-> 0], NoFlowHistory)

ConfigureVolume == \E c \in VolumeConfigs : setDeploymentConfig(c)
MeterVolume ==
    /\ Len(samples) < MaxReads
    /\ \E r \in VolumeRates : updateCurrentFlowrate(U32(LastSample + r))
TickVolume ==
    \E depth \in VolumeDepths : checkPumpTrigger(depth, 1300, 120, LastSample, 60)

NextVolume ==
    ConfigureVolume \/ Validate \/ DiveStart \/ PumpStart \/ MeterVolume
        \/ TickVolume

SpecVolume == InitVolume /\ [][NextVolume]_vars

\* ------------------------------------------------------------ C16
\* the masks are the validated ones, the volume stop is enabled and the
\* cumulative tick count has reached the target volume
VolumeReached ==
    maskState = "current" /\ StopEnabled(0) /\ LastSample >= _targetFlowVol

\* C16: with the volume stop enabled, once the cumulative tick count has
\* reached the target volume every checkPumpTrigger call returns PUMP_OFF,
\* whatever the depth and temperature, and this stays so at every later call
\* as long as the count does not decrease and setDeploymentConfig is not
\* called.
VolumeStopLatches ==
    [][(VolumeReached /\ call'.op # "setDeploymentConfig") =>
          /\ VolumeReached'
          /\ call'.op = "checkPumpTrigger" => call'.ret = PUMP_OFF]_vars

\* a check after the count went past the target, with the depth in band and
\* the dive wait elapsed: the pump stays off
VolumeStopLatchesWitness ==
    /\ Checked /\ VolumeReached
    /\ ticksRead > _targetFlowVol
    /\ StartFires(0) /\ StartFires(2)
    /\ Command = PUMP_OFF

DiveConfigs == { <<0, 2000, 500, ABS_ZERO_C, 0, 5, 0, 0, TICKS_PER_L>> }
DiveReadings ==
    { <<2300, 1300, 30, 0, 0>>,
      <<2600, 1300, 150, TICKS_PER_L, 120>>,
      <<1850, 1300, 429, TICKS_PER_L, 299>>,
      <<1300, 1300, 429, TICKS_PER_L, 299>>,
      <<1920, 1300, 252, TICKS_PER_L, 301>> }

InitDive ==
    \E startMask \in GarbageArrays, endMask \in GarbageArrays,
       conds \in GarbageArrays :
        Constructed(startMask, endMask, conds, NoFlowHistory)

ConfigureDive == \E c \in DiveConfigs : setDeploymentConfig(c)
TickDive == \E r \in DiveReadings : checkPumpTrigger(r[1], r[2], r[3], r[4], r[5])
PumpStartAfterOn ==
    /\ Checked /\ Command = PUMP_ON
    /\ setPumpStartTime(timeRead)

NextDive == ConfigureDive \/ Validate \/ TickDive \/ PumpStartAfterOn

SpecDive == InitDive /\ [][NextDive]_vars

\* ------------------------------------------------------------ C18
\* the command computed from scratch: from the masks, and from the conditions
\* as the configuration, the flow rates, the timestamps and the readings of
\* this tick make them
CommandFromScratch ==
    PumpCommand(_startConditionMask, [i \in CondIdx |-> Bool(StartTrue(i))],
                _endConditionMask, [k \in CondIdx |-> Bool(StopTrue(k))])

\* C18: the command a check returns is the one computed from the
\* configuration, the masks, the flow rates, the timestamps and the five
\* inputs of that check alone; two engines that agree on these return the
\* same command, whatever checks they were asked before and whatever their
\* cached conditions and previous commands were.
NoHiddenHysteresis == Checked => Command = CommandFromScratch

\* the pump was switched on at an earlier tick (its start is stamped); at this
\* tick no start condition fires and no stop condition fires, and the command
\* is PUMP_OFF
NoHiddenHysteresisWitness ==
    /\ Checked /\ maskState = "current"
    /\ _pumpStartTime # UINT_MAX
    /\ \A j \in CondIdx : ~StartFires(j)
    /\ \A k \in CondIdx : ~StopFires(k)
    /\ Command = PUMP_OFF

\* ------------------------------------------------------------ C19
\* the n-th sample passed in (n from 1) is written into slot (n - 1) mod 5
SlotOf(n) == (n - 1) % NUM_FLOW_LOGS

\* the index is in 0..4 and is the number of calls modulo 5; the log holds the
\* last 5 samples passed in (all of them when fewer), each in its slot; slots
\* never written read 0; from 5 calls on the index is at the oldest of the
\* last 5 samples
RingHoldsLastFive ==
    /\ _curFlowIdx \in LogIdx
    /\ _curFlowIdx = Len(samples) % NUM_FLOW_LOGS
    /\ \A n \in 1 .. Len(samples) :
          n > Len(samples) - NUM_FLOW_LOGS => _flowLog[SlotOf(n)] = samples[n]
    /\ \A j \in LogIdx : j >= Len(samples) => _flowLog[j] = 0
    /\ Len(samples) >= NUM_FLOW_LOGS =>
          _flowLog[_curFlowIdx] = samples[Len(samples) - NUM_FLOW_LOGS + 1]

\* an updateCurrentFlowrate call writes its sample into the slot at the index,
\* leaves the other slots alone and advances the index by one modulo 5
RingWritesOneSlot ==
    (call'.op = "updateCurrentFlowrate" /\ samples' # samples) =>
        /\ _flowLog'[_curFlowIdx] = call'.args[1]
        /\ \A j \in LogIdx \ {_curFlowIdx} : _flowLog'[j] = _flowLog[j]
        /\ _curFlowIdx' = (_curFlowIdx + 1) % NUM_FLOW_LOGS

\* C19: the flow log is a well-formed 5-slot ring: in every reachable state
\* the write index is in 0..4, every updateCurrentFlowrate call writes exactly
\* one slot and advances the index by one modulo 5, after n >= 5 calls the
\* log holds exactly the last 5 samples passed in with the index at the
\* oldest of them, and slots not yet written read 0.
RingWellFormed ==
    [][RingHoldsLastFive /\ RingHoldsLastFive' /\ RingWritesOneSlot]_vars

\* the ring has wrapped: more than 5 samples were passed in, the slot at the
\* index holds the sample of 4 calls before the last and no longer the one of
\* 5 calls before
RingWellFormedWitness ==
    /\ Updated /\ Len(samples) > NUM_FLOW_LOGS
    /\ _flowLog[_curFlowIdx] = samples[Len(samples) - NUM_FLOW_LOGS + 1]
    /\ _flowLog[_curFlowIdx] # samples[Len(samples) - NUM_FLOW_LOGS]
    /\ \A j \in LogIdx : _flowLog[j] # 0

\* ------------------------------------------------------------ the ranges
\* Operator inputs at the limits of the ranges: target depths unset, one
\* hundredth below MIN_DEPTH, at MIN_DEPTH, inside, one hundredth below
\* MAX_DEPTH and at MAX_DEPTH; a depth band unset and set; waits and pump
\* durations unset, set, and of so many minutes that the seconds wrap to 0;
\* a volume unset and set, and one whose ticks are UINT_MAX itself.
WrapToZeroMinutes == 2 ^ (WordBits - 2)
RangeDepths ==
    {0, MIN_DEPTH - 1, MIN_DEPTH, 2000, MAX_DEPTH - 1, MAX_DEPTH}
RangeConfigs ==
    ({0} \X RangeDepths \X {0, 500} \X {ABS_ZERO_C} \X {0}
        \X {0, 5, WrapToZeroMinutes} \X {0, 2, WrapToZeroMinutes}
        \X {0, 20} \X {TICKS_PER_L})
    \cup { <<0, 2000, 500, ABS_ZERO_C, 0, 5, 2, UINT_MAX, 1>> }

InitRange ==
    \E startMask \in GarbageArrays, endMask \in GarbageArrays :
        Constructed(startMask, endMask, [i \in CondIdx |-> 0], NoFlowHistory)

ConfigureRange == \E c \in RangeConfigs : setDeploymentConfig(c)

NextRange == ConfigureRange \/ Validate

SpecRange == InitRange /\ [][NextRange]_vars

\* ------------------------------------------------------------ C20
\* C20: after isValidUserConfig, start[2] is enabled iff the stored wait is
\* above 0 and below UINT_MAX, stop[0] iff the stored target volume in ticks
\* is above 0 and below UINT_MAX, stop[1] iff the stored max pump duration is
\* above 0 and below UINT_MAX, and start[0] iff the target depth is at least
\* MIN_DEPTH and below MAX_DEPTH and the depth band is positive.
MasksByRange ==
    Validated =>
        /\ StartEnabled(2) <=> (0 < _waitPumpStart /\ _waitPumpStart < UINT_MAX)
        /\ StopEnabled(0) <=> (0 < _targetFlowVol /\ _targetFlowVol < UINT_MAX)
        /\ StopEnabled(1) <=> (0 < _waitPumpEnd /\ _waitPumpEnd < UINT_MAX)
        /\ StartEnabled(0) <=>
              /\ MIN_DEPTH <= _targetDepth /\ _targetDepth < MAX_DEPTH
              /\ _depthBand > 0

\* a target depth of exactly MIN_DEPTH is enabled, a nonzero wait stored as 0
\* and a volume stored as UINT_MAX are disabled, a duration inside the range
\* is enabled
MasksByRangeWitness ==
    /\ Validated
    /\ _targetDepth = MIN_DEPTH /\ _depthBand > 0 /\ StartEnabled(0)
    /\ CfgWaitPumpStart(cfgIn) > 0 /\ _waitPumpStart = 0 /\ ~StartEnabled(2)
    /\ _targetFlowVol = UINT_MAX /\ ~StopEnabled(0)
    /\ 0 < _waitPumpEnd /\ _waitPumpEnd < UINT_MAX /\ StopEnabled(1)

\* ------------------------------------------------------------ the peak, large counts
\* Tick counts passed to the estimator and to the capture: none, a small one,
\* and the smallest one whose product with 12 does not fit the word.
WrapTicks == (UINT_MAX + 1) \div 12 + 1
PeakData == {0, 100, WrapTicks}

SamplePeak ==
    /\ Len(samples) < MaxReads
    /\ \E flowData \in PeakData : updateCurrentFlowrate(flowData)
CaptureAny == \E flowData \in PeakData : computeMaxFlowrate(flowData)

NextPeak == SamplePeak \/ CaptureAny

SpecPeak == InitFlow /\ [][NextPeak]_vars

\* ------------------------------------------------------------ C21
\* C21: computeMaxFlowrate leaves the flow log, its index and the current
\* flow rate unchanged, and called with the tick count of the
\* updateCurrentFlowrate call just before it, it records a peak equal to the
\* current flow rate, for every tick count.
PeakEqualsEstimate ==
    [][call'.op = "computeMaxFlowrate" =>
          /\ UNCHANGED <<_flowLog, _curFlowIdx, _curFlowrate>>
          /\ (Updated /\ call'.args = call.args) =>
                _maxFlowrate' = _curFlowrate]_vars

\* ------------------------------------------------------------ C22
\* the command the masks of a fresh validation of the stored configuration
\* would give at the tick last checked
CommandIfValidated ==
    PumpCommand(NewStartConditionMask, [i \in CondIdx |-> Bool(StartTrue(i))],
                NewEndConditionMask, [k \in CondIdx |-> Bool(StopTrue(k))])

\* C22: setDeploymentConfig leaves the condition masks, the peak flow rate,
\* the flow log and its index, the current flow rate and both timestamps as
\* they were, and a check that follows it without a new validation decides
\* with the masks as they were before the call.
ReconfigureKeepsMasks ==
    [][/\ call'.op = "setDeploymentConfig" =>
              UNCHANGED <<maskVars, _maxFlowrate, _flowLog, _curFlowIdx,
                          _curFlowrate, timeVars>>
       /\ (call.op = "setDeploymentConfig" /\ call'.op = "checkPumpTrigger") =>
              call'.ret =
                  PumpCommand(_startConditionMask,
                              [i \in CondIdx |-> Bool(StartTrue(i)')],
                              _endConditionMask,
                              [k \in CondIdx |-> Bool(StopTrue(k)')])]_vars

\* a check after a re-configuration that was not validated: the masks are
\* those of the deployment before, a captured peak is still there, and the
\* command is not the one the new configuration's own masks would give
ReconfigureKeepsMasksWitness ==
    /\ Checked /\ maskState = "stale"
    /\ _startConditionMask # NewStartConditionMask
    /\ _maxFlowrate > 0
    /\ Command # CommandIfValidated

\* ------------------------------------------------------------ connectWiFi
WIFI_WAIT == 20
\* what WiFi.status() can answer: the link is up or it is not
LinkStates == {"WL_DISCONNECTED", "WL_CONNECTED"}

\* samplerWiFi.cpp:21-23, WiFi.begin starts the connection
connectWiFiBegin ==
    /\ connectPc \in {"idle", "returned"}
    /\ connectPc' = "loop"
    /\ wifi_attempt' = 0
    /\ wifiStatus' \in LinkStates
    /\ UNCHANGED <<samplerVars, call, uploadVars>>

\* samplerWiFi.cpp:24-30, one pass of the loop: the link is not up and fewer
\* than WIFI_WAIT waits were made; the link may come up during the second
\* waited
connectWiFiWait ==
    /\ connectPc = "loop"
    /\ wifiStatus # "WL_CONNECTED" /\ wifi_attempt < WIFI_WAIT
    /\ wifi_attempt' = U8(wifi_attempt + 1)
    /\ wifiStatus' \in LinkStates
    /\ UNCHANGED <<samplerVars, call, connectPc, uploadVars>>

\* samplerWiFi.cpp:31-34, the result once the loop is left
ConnectResult(attempt) == IF attempt = WIFI_WAIT THEN 0 ELSE 1

\* samplerWiFi.cpp:24 and 31-34, the loop condition fails and the call returns
connectWiFiReturn ==
    /\ connectPc = "loop"
    /\ ~(wifiStatus # "WL_CONNECTED" /\ wifi_attempt < WIFI_WAIT)
    /\ connectPc' = "returned"
    /\ call' = Returned("connectWiFi", <<>>, ConnectResult(wifi_attempt))
    /\ UNCHANGED <<samplerVars, wifiStatus, wifi_attempt, uploadVars>>

InitWiFi == InitFlow

NextWiFi == connectWiFiBegin \/ connectWiFiWait \/ connectWiFiReturn

SpecWiFi == InitWiFi /\ [][NextWiFi]_vars

\* ------------------------------------------------------------ C23
Connected == connectPc = "returned" /\ call.op = "connectWiFi"

\* C23: connectWiFi returns after at most WIFI_WAIT waits of one second, and
\* it returns 1 exactly when the link is up at the moment it returns, also
\* when the link came up during the last wait.
ConnectedIffLinkUp ==
    Connected =>
        /\ wifi_attempt <= WIFI_WAIT
        /\ call.ret = 1 <=> wifiStatus = "WL_CONNECTED"


\* ---------------------------------------------------------------------
\* SamplerWiFi::_persistChunkUpload (samplerWiFi.cpp:122-156)
\* ---------------------------------------------------------------------

CHUNK_SIZE == 2048

\* the answers http.POST can give: OK, a server error, a client-side failure
HttpCodes == {200, 500, -1}

\* the longest file whose chunk numbers still fit the 8-bit nthChunk, and the
\* shortest one whose do not
ByteChunks == 255
LongFile == (ByteChunks + 1) * CHUNK_SIZE

FileSizes == {0, 1, CHUNK_SIZE, CHUNK_SIZE + 1, ByteChunks * CHUNK_SIZE,
              LongFile}

\* curFile.available()
Available == fileSize - filePos

Min(a, b) == IF a < b THEN a ELSE b

\* the call, up to the first test of the outer loop
uploadBegin ==
    /\ uploadPc \in {"idle", "returned"}
    /\ \E size \in FileSizes :
          /\ fileSize' = size
          /\ filePos' = 0
    /\ bytesRead' = 0
    /\ nthChunk' = 1
    /\ httpCode' = 0
    /\ sent' = NoPost
    /\ acked' = 0
    /\ uploadPc' = "loop"
    /\ UNCHANGED <<samplerVars, call, connectVars>>

\* the inner loop fills tempBytes from the file, then the first POST of the
\* chunk
uploadPost ==
    /\ uploadPc = "loop"
    /\ Available > 0
    /\ LET n == Min(Available, CHUNK_SIZE - bytesRead)
       IN  /\ bytesRead' = U16(bytesRead + n)
           /\ filePos' = filePos + n
           /\ sent' = [nth |-> nthChunk, bytes |-> U16(bytesRead + n),
                       offset |-> filePos]
    /\ httpCode' \in HttpCodes
    /\ uploadPc' = "posted"
    /\ UNCHANGED <<samplerVars, call, connectVars, fileSize, nthChunk, acked>>

\* one round of the retry loop: delay(1000), then the same buffer again
uploadRetry ==
    /\ uploadPc = "posted"
    /\ httpCode # 200
    /\ httpCode' \in HttpCodes
    /\ UNCHANGED <<samplerVars, call, connectVars, fileSize, filePos,
                   bytesRead, nthChunk, uploadPc, sent, acked>>

\* the chunk was answered 200: on to the next one
uploadNext ==
    /\ uploadPc = "posted"
    /\ httpCode = 200
    /\ bytesRead' = 0
    /\ nthChunk' = U8(nthChunk + 1)
    /\ acked' = acked + 1
    /\ uploadPc' = "loop"
    /\ UNCHANGED <<samplerVars, call, connectVars, fileSize, filePos,
                   httpCode, sent>>

\* the file is exhausted: http.end() and return
uploadReturn ==
    /\ uploadPc = "loop"
    /\ Available = 0
    /\ uploadPc' = "returned"
    /\ call' = Returned("_persistChunkUpload", <<fileSize>>, 0)
    /\ UNCHANGED <<samplerVars, connectVars, fileSize, filePos, bytesRead,
                   nthChunk, httpCode, sent, acked>>

InitUpload == InitFlow

NextUpload ==
    \/ uploadBegin
    \/ uploadPost
    \/ uploadRetry
    \/ uploadNext
    \/ uploadReturn

SpecUpload == InitUpload /\ [][NextUpload]_vars

\* a POST is out or was answered
Posted == uploadPc = "posted"

\* C24: every POST carries the next chunk in file order, numbered 1, 2, 3, ...
\* in its Nth header: the chunk that starts at byte offset (k - 1) * CHUNK_SIZE
\* goes out with Nth = k, is the chunk after the acknowledged ones, and the
\* file is read no further than its end.
ChunksNumberedInOrder ==
    Posted =>
        /\ sent.offset = acked * CHUNK_SIZE
        /\ sent.nth = acked + 1
        /\ sent.bytes = Min(fileSize - sent.offset, CHUNK_SIZE)
        /\ filePos = sent.offset + sent.bytes
====
